---- MODULE Spec2Model ----
(***************************************************************************)
(* A model of the LTO anchor indexer (ltonetwork/anchor):                  *)
(*   - AnchorMonitorService (src/src/anchor/anchor-monitor.service.ts):    *)
(*     the block scanner start / process / checkNewBlock / processBlock /  *)
(*     processTransaction;                                                 *)
(*   - StorageService (src/unnamed/part_000): the processing-height        *)
(*     checkpoint, the anchor records and the association adjacency sets.  *)
(*                                                                         *)
(* The scanner runs on the JavaScript event loop: code between two awaits  *)
(* is atomic, and every awaited node or storage call is a suspend point.   *)
(* Each scanner action below is the code that runs when one awaited call   *)
(* settles (resolves or rejects), up to the next awaited call.             *)
(***************************************************************************)
EXTENDS Integers, Sequences, FiniteSets, TLC

(* ------------------------------ bounds --------------------------------- *)

\* The node produces blocks 1 .. MaxHeight.
MaxHeight == 2

\* start() may be called on the service once per element of 1 .. NumCallers.
NumCallers == 3

Callers == 1 .. NumCallers

(* ------------------------- transactions and blocks ---------------------- *)

\* this.transactionTypes = [12, 15]
transactionTypes == {12, 15}

\* this.anchorToken = '⚓'
anchorToken == "anchor"

\* An encoded anchor value that the encoder cannot decode.
Malformed == "malformed"

DecodeError == <<"DecodeError">>

\* A transaction of type 4 (transfer): no data items, no anchors.
Transfer == [type |-> 4, data |-> <<>>, anchors |-> <<>>]

\* Transactions of type 12 (data transaction carrying legacy anchors).
Data12 == [type |-> 12,
           data |-> << [key |-> anchorToken, value |-> "h1"],
                       [key |-> "other", value |-> "h3"],
                       [key |-> anchorToken, value |-> "h2"] >>,
           anchors |-> <<>>]

BadData12 == [type |-> 12,
              data |-> << [key |-> anchorToken, value |-> Malformed],
                          [key |-> anchorToken, value |-> "h1"] >>,
              anchors |-> <<>>]

\* A transaction of type 15 (native anchor); its first anchor is malformed.
Anchor15 == [type |-> 15, data |-> <<>>, anchors |-> <<Malformed, "h1">>]

\* The blocks the node may produce (a block is its transactions, in order).
BlockMenu ==
    { <<>>,
      <<Transfer, Anchor15>>,
      <<Data12, Transfer>>,
      <<BadData12, Transfer>> }

\* encoder.hexEncode(encoder.base64Decode(value)) / base58Decode(anchor):
\* the hex hash of a well-formed value, a thrown error for a malformed one.
Decode(value) == IF value = Malformed THEN DecodeError ELSE <<"hex", value>>

(* ------------------------------ storage -------------------------------- *)

\* What storage.getValue yields for an absent key: an empty value.
NoValue == <<>>

\* null, the height getProcessingHeight returns when it has none (heights are
\* not negative).
null == -1

RECURSIVE String(_)
\* String(height): the decimal digits of a non-negative integer.
String(n) == IF n < 10 THEN <<n>> ELSE String(n \div 10) \o <<n % 10>>

RECURSIVE Number(_)
\* Number(height): the integer a string of decimal digits denotes.
Number(s) == IF Len(s) = 0 THEN 0
             ELSE 10 * Number(SubSeq(s, 1, Len(s) - 1)) + s[Len(s)]

\* StorageService.getProcessingHeight with the outcome of storage.getValue:
\* `stored` is the value read, or NoValue when the key is absent or the read
\* threw (the error is swallowed by the empty catch).
GetProcessingHeight(stored) == IF stored = NoValue THEN null ELSE Number(stored)

\* A saveProcessingHeight that stores the height before the one it is given.
SaveProcessingHeightStale(height) == String(height - 1)

\* StorageService.saveProcessingHeight: the value setValue stores.
SaveProcessingHeight(height) == String(height)

\* A saveAnchor that replaces the record of `hash` instead of adding to it.
SaveAnchorOverwrite(store, hash, txid) ==
    {p \in store : p[1] # hash} \cup {<<hash, txid>>}

\* StorageService.saveAnchor -> storage.addObject: the anchor record of `hash`
\* gains the transaction id.
SaveAnchor(store, hash, txid) == store \cup {<<hash, txid>>}

(* ----------------------------- variables ------------------------------- *)

VARIABLES
    chain,          \* the node's blocks: chain[h] is the block of height h
    startingBlock,  \* config.getNodeStartingBlock(): 'last' or a height
    callers,        \* the callers that call start() on the service
    heightValue,    \* the stored value of lto:processing-height, or NoValue
    anchors,        \* the anchor records: pairs <<hex hash, transaction id>>
    pending,        \* saveAnchor calls issued by forEach and not yet settled
    processing,     \* this.processing
    lastBlock,      \* this.lastBlock
    scan,           \* per caller of start(): where its loop stands
    unhandled,      \* history: the rejections of forEach's callbacks
    crash,          \* history: the store when the process was terminated
    childs,         \* childs[a]: the set stored at lto:assoc:<a>:childs
    parents,        \* parents[a]: the set stored at lto:assoc:<a>:parents
    op,             \* the association operation in progress, or the last one
    stack,          \* the frames of recurRemoveAssociation, innermost last
    pre,            \* history: childs and parents when op was called
    ranked,         \* ranked[k]: the sorted set stored for the key k
    job,            \* the call of indexer.index in progress, or the last one
    call,           \* the call of zaddIncr in progress, or the last one
    log,            \* history: the indexTx calls of the job, in order
    page,           \* the last call of getTx and what it returned
    roleDoc,        \* the object stored at lto:roles:<address>
    roleOp,         \* the call of saveTrustNetworkRole in progress
    roleData        \* what the last call of getTrustNetworkRoles returned

scannerVars == <<chain, startingBlock, callers, heightValue, anchors, pending,
                 processing, lastBlock, scan, unhandled, crash>>

assocVars == <<childs, parents, op, stack, pre>>

indexVars == <<ranked, job, call, log, page>>

roleVars == <<roleDoc, roleOp, roleData>>

vars == <<scannerVars, assocVars, indexVars, roleVars>>

\* The persisted checkpoint as a number (0 when none is stored).
Checkpoint == IF heightValue = NoValue THEN 0 ELSE Number(heightValue)

\* No termination of the process has happened.
NoCrash == [happened |-> FALSE, height |-> 0, anchors |-> {},
            childs |-> {}, parents |-> {}]

\* The state of one caller's loop.  pc names the awaited call the loop is
\* suspended on; currentHeight, lastHeight are checkNewBlock's locals; txi and
\* itemi are the positions of processBlock's and processTransaction's loops.
\* The other fields are history: of the pass (before, got, read, first,
\* fetched, saved), of the block (txlog) and of the loop (began, cause).
IdleLoop ==
    [pc |-> "idle", currentHeight |-> 0, lastHeight |-> 0, txi |-> 0,
     itemi |-> 0, before |-> NoValue, got |-> null, read |-> "none",
     first |-> 0, fetched |-> <<>>, saved |-> <<>>, txlog |-> <<>>,
     began |-> {}, cause |-> "none"]

InPass(s) ==
    s.pc \in {"getLastBlockHeight", "getProcessingHeight", "getBlock",
              "index", "saveAnchor", "saveProcessingHeight"}

(* ------------------------- the scanner's steps ------------------------- *)

\* An error thrown inside the loop propagates through process() to start():
\*   catch (e) { this.processing = false; throw e; }
Reject(l, s, step) ==
    /\ processing' = FALSE
    /\ scan' = [scan EXCEPT ![l] = [s EXCEPT !.pc = "rejected", !.cause = step]]

\* process(): if (!this.processing) { await this.checkNewBlock(); } then
\* await delay(...).  checkNewBlock sets processing = true before its first
\* await (node.getLastBlockHeight()).
Process(l, s) ==
    /\ IF ~processing
       THEN /\ processing' = TRUE
            /\ scan' = [scan EXCEPT ![l] =
                          [s EXCEPT !.pc = "getLastBlockHeight",
                                    !.before = heightValue, !.got = null,
                                    !.read = "none", !.first = 0,
                                    !.fetched = <<>>, !.saved = <<>>,
                                    !.txlog = <<>>]]
       ELSE /\ UNCHANGED processing
            /\ scan' = [scan EXCEPT ![l] = [s EXCEPT !.pc = "delay"]]

Max(a, b) == IF a >= b THEN a ELSE b

\* A first height computed as max(checkpoint, lastBlock) + 1.
NextHeightMax(got, last) == Max(IF got = null THEN 0 ELSE got, last) + 1

\* (await this.storage.getProcessingHeight() || this.lastBlock) + 1
NextHeight(got, last) == (IF got = null \/ got = 0 THEN last ELSE got) + 1

\* checkNewBlock's for (; lastHeight <= currentHeight; lastHeight++), entered
\* with lastHeight = h: the next getBlock is issued, or the pass ends
\* (processing = false) and process() goes on to its delay.
ForLoop(l, s, h) ==
    /\ IF h <= s.currentHeight
       THEN /\ UNCHANGED processing
            /\ scan' = [scan EXCEPT ![l] =
                          [s EXCEPT !.pc = "getBlock", !.lastHeight = h,
                                    !.fetched = Append(s.fetched, h)]]
       ELSE /\ processing' = FALSE
            /\ scan' = [scan EXCEPT ![l] =
                          [s EXCEPT !.pc = "delay", !.lastHeight = h]]

\* A processBlock that leaves out the block's last transaction.
NextTransactionButLast(l, s, i) ==
    /\ IF i < Len(chain[s.lastHeight])
       THEN scan' = [scan EXCEPT ![l] =
                       [s EXCEPT !.pc = "index", !.txi = i, !.itemi = 0,
                                 !.txlog = Append(s.txlog, <<"call", i>>)]]
       ELSE scan' = [scan EXCEPT ![l] =
                       [s EXCEPT !.pc = "saveProcessingHeight", !.txi = 0,
                                 !.itemi = 0,
                                 !.saved = Append(s.saved, s.lastHeight)]]
    /\ UNCHANGED processing

\* processBlock's for (const transaction of block.transactions), at position
\* i: processTransaction is called and awaits indexer.index(transaction); after
\* the last transaction checkNewBlock calls saveProcessingHeight(lastHeight).
NextTransaction(l, s, i) ==
    /\ IF i <= Len(chain[s.lastHeight])
       THEN scan' = [scan EXCEPT ![l] =
                       [s EXCEPT !.pc = "index", !.txi = i, !.itemi = 0,
                                 !.txlog = Append(s.txlog, <<"call", i>>)]]
       ELSE scan' = [scan EXCEPT ![l] =
                       [s EXCEPT !.pc = "saveProcessingHeight", !.txi = 0,
                                 !.itemi = 0,
                                 !.saved = Append(s.saved, s.lastHeight)]]
    /\ UNCHANGED processing

\* processTransaction returns for transaction s.txi.
Return(l, s) ==
    NextTransaction(l, [s EXCEPT !.txlog = Append(s.txlog, <<"ret", s.txi>>)],
                    s.txi + 1)

\* A processTransaction that takes every data item for an anchor.
AnchorItemsAnyKey(tx, j) == j .. Len(tx.data)

\* The positions from j on of the data items whose key is the anchor token.
AnchorItems(tx, j) == {k \in j .. Len(tx.data) : tx.data[k].key = anchorToken}

Least(S) == CHOOSE k \in S : \A m \in S : k <= m

\* processTransaction's for (const item of transaction.data) from position j:
\* the next item with the anchor token is decoded (a decode error is thrown
\* out of processTransaction) and its saveAnchor is awaited.
NextItem(l, s, j) ==
    LET tx == chain[s.lastHeight][s.txi]
        ks == AnchorItems(tx, j)
    IN  IF ks = {}
        THEN Return(l, s)
        ELSE IF Decode(tx.data[Least(ks)].value) = DecodeError
             THEN Reject(l, s, "decode")
             ELSE /\ scan' = [scan EXCEPT ![l] =
                                [s EXCEPT !.pc = "saveAnchor",
                                          !.itemi = Least(ks)]]
                  /\ UNCHANGED processing

\* transaction.anchors.forEach(async (anchor) => {...}): the saveAnchor calls
\* the callbacks issue.  A callback whose decode throws issues none.
Issued(tx, h, i) ==
    {[hash |-> Decode(tx.anchors[k]), tx |-> <<h, i>>, height |-> h] :
        k \in {m \in 1 .. Len(tx.anchors) : Decode(tx.anchors[m]) # DecodeError}}

\* The callbacks whose decode throws: rejected promises nobody awaits.
Dropped(tx, h) ==
    {[step |-> "decode", height |-> h] :
        k \in {m \in 1 .. Len(tx.anchors) : Decode(tx.anchors[m]) = DecodeError}}

(* ------------------------------ actions -------------------------------- *)

\* start(): this.lastBlock is the configured height, or (for 'last') the
\* awaited node height; then process() is called.
Start(l) ==
    /\ l \in callers
    /\ scan[l].pc = "idle"
    /\ IF startingBlock.last
       THEN /\ scan' = [scan EXCEPT ![l].pc = "startHeight"]
            /\ UNCHANGED <<processing, lastBlock>>
       ELSE /\ lastBlock' = startingBlock.height
            /\ Process(l, scan[l])
    /\ UNCHANGED <<chain, startingBlock, callers, heightValue, anchors,
                   pending, unhandled>>
    /\ UNCHANGED <<crash, assocVars, indexVars, roleVars>>

\* start(): await this.node.getLastBlockHeight() settles.
StartHeight(l) ==
    /\ scan[l].pc = "startHeight"
    /\ \/ /\ lastBlock' = Len(chain)
          /\ Process(l, scan[l])
       \/ /\ Reject(l, scan[l], "getLastBlockHeight")
          /\ UNCHANGED lastBlock
    /\ UNCHANGED <<chain, startingBlock, callers, heightValue, anchors,
                   pending, unhandled>>
    /\ UNCHANGED <<crash, assocVars, indexVars, roleVars>>

\* process(): await delay(...) settles and process() is called again.
Delay(l) ==
    /\ scan[l].pc = "delay"
    /\ Process(l, scan[l])
    /\ UNCHANGED <<chain, startingBlock, callers, heightValue, anchors,
                   pending, lastBlock, unhandled>>
    /\ UNCHANGED <<crash, assocVars, indexVars, roleVars>>

\* checkNewBlock: const currentHeight = await this.node.getLastBlockHeight()
\* settles; storage.getProcessingHeight() is called.
CurrentHeight(l) ==
    /\ scan[l].pc = "getLastBlockHeight"
    /\ \/ /\ scan' = [scan EXCEPT ![l].pc = "getProcessingHeight",
                                  ![l].currentHeight = Len(chain)]
          /\ UNCHANGED processing
       \/ Reject(l, scan[l], "getLastBlockHeight")
    /\ UNCHANGED <<chain, startingBlock, callers, heightValue, anchors,
                   pending, lastBlock, unhandled>>
    /\ UNCHANGED <<crash, assocVars, indexVars, roleVars>>

\* A getProcessingHeight without its try/catch: a failed read is thrown.
ProcessingHeightThrows(l) ==
    /\ scan[l].pc = "getProcessingHeight"
    /\ \/ LET got == GetProcessingHeight(heightValue)
              s   == [scan[l] EXCEPT !.got = got, !.read = "ok",
                                     !.first = NextHeight(got, lastBlock)]
          IN  ForLoop(l, s, NextHeight(got, lastBlock))
       \/ Reject(l, [scan[l] EXCEPT !.read = "failed"], "getProcessingHeight")
    /\ UNCHANGED <<chain, startingBlock, callers, heightValue, anchors,
                   pending, lastBlock, unhandled>>
    /\ UNCHANGED <<crash, assocVars, indexVars, roleVars>>

\* checkNewBlock: await this.storage.getProcessingHeight() settles (the read
\* returned the stored value, or threw and the error was swallowed); lastHeight
\* is computed and the for loop is entered.
ProcessingHeight(l) ==
    /\ scan[l].pc = "getProcessingHeight"
    /\ \E failed \in BOOLEAN :
          LET got == GetProcessingHeight(IF failed THEN NoValue ELSE heightValue)
              s   == [scan[l] EXCEPT !.got = got,
                                     !.read = IF failed THEN "failed" ELSE "ok",
                                     !.first = NextHeight(got, lastBlock)]
          IN  ForLoop(l, s, NextHeight(got, lastBlock))
    /\ UNCHANGED <<chain, startingBlock, callers, heightValue, anchors,
                   pending, lastBlock, unhandled>>
    /\ UNCHANGED <<crash, assocVars, indexVars, roleVars>>

\* checkNewBlock: await this.node.getBlock(lastHeight) settles; processBlock
\* starts on the block's transactions.
GetBlock(l) ==
    /\ scan[l].pc = "getBlock"
    /\ \/ NextTransaction(l, [scan[l] EXCEPT !.txlog = <<>>,
                                !.began = @ \cup {scan[l].lastHeight}], 1)
       \/ Reject(l, scan[l], "getBlock")
    /\ UNCHANGED <<chain, startingBlock, callers, heightValue, anchors,
                   pending, lastBlock, unhandled>>
    /\ UNCHANGED <<crash, assocVars, indexVars, roleVars>>

\* processTransaction: await this.indexer.index(transaction) settles; the
\* transaction is classified and its anchors are handled.
Index(l) ==
    /\ scan[l].pc = "index"
    /\ LET s  == scan[l]
           tx == chain[s.lastHeight][s.txi]
       IN  \/ /\ tx.type \notin transactionTypes
              /\ Return(l, s)
              /\ UNCHANGED <<pending, unhandled>>
           \/ /\ tx.type = 12
              /\ IF Len(tx.data) > 0 THEN NextItem(l, s, 1) ELSE Return(l, s)
              /\ UNCHANGED <<pending, unhandled>>
           \/ /\ tx.type = 15
              /\ pending' = pending \cup Issued(tx, s.lastHeight, s.txi)
              /\ unhandled' = unhandled \cup Dropped(tx, s.lastHeight)
              /\ Return(l, s)
           \/ /\ Reject(l, s, "index")
              /\ UNCHANGED <<pending, unhandled>>
    /\ UNCHANGED <<chain, startingBlock, callers, heightValue, anchors,
                   lastBlock>>
    /\ UNCHANGED <<crash, assocVars, indexVars, roleVars>>

\* processTransaction (type 12): await this.storage.saveAnchor(hexHash,
\* transaction.id) settles; the loop over the data items goes on.
SaveAnchorDone(l) ==
    /\ scan[l].pc = "saveAnchor"
    /\ LET s  == scan[l]
           tx == chain[s.lastHeight][s.txi]
       IN  \/ /\ anchors' = SaveAnchor(anchors, Decode(tx.data[s.itemi].value),
                                       <<s.lastHeight, s.txi>>)
              /\ NextItem(l, s, s.itemi + 1)
           \/ /\ Reject(l, s, "saveAnchor")
              /\ UNCHANGED anchors
    /\ UNCHANGED <<chain, startingBlock, callers, heightValue, pending,
                   lastBlock, unhandled>>
    /\ UNCHANGED <<crash, assocVars, indexVars, roleVars>>

\* checkNewBlock: await this.storage.saveProcessingHeight(lastHeight) settles;
\* lastHeight++ and the for loop's condition is tested.
SaveHeightDone(l) ==
    /\ scan[l].pc = "saveProcessingHeight"
    /\ \/ /\ heightValue' = SaveProcessingHeight(scan[l].lastHeight)
          /\ ForLoop(l, scan[l], scan[l].lastHeight + 1)
       \/ /\ Reject(l, scan[l], "saveProcessingHeight")
          /\ UNCHANGED heightValue
    /\ UNCHANGED <<chain, startingBlock, callers, anchors, pending, lastBlock,
                   unhandled>>
    /\ UNCHANGED <<crash, assocVars, indexVars, roleVars>>

\* A saveAnchor issued by a forEach callback (type 15) settles: the record is
\* written, or the call throws and the callback's promise rejects unobserved.
DetachedSaveAnchor ==
    /\ \E w \in pending :
          /\ pending' = pending \ {w}
          /\ \/ /\ anchors' = SaveAnchor(anchors, w.hash, w.tx)
                /\ UNCHANGED unhandled
             \/ /\ unhandled' = unhandled \cup
                      {[step |-> "saveAnchor", height |-> w.height]}
                /\ UNCHANGED anchors
    /\ UNCHANGED <<chain, startingBlock, callers, heightValue, processing,
                   lastBlock, scan>>
    /\ UNCHANGED <<crash, assocVars, indexVars, roleVars>>

\* The node appends a block, one of `menu`.
Produce(menu) ==
    /\ Len(chain) < MaxHeight
    /\ \E block \in menu : chain' = Append(chain, block)
    /\ UNCHANGED <<startingBlock, callers, heightValue, anchors, pending,
                   processing, lastBlock, scan, unhandled>>
    /\ UNCHANGED <<crash, assocVars, indexVars, roleVars>>

NewBlock == Produce(BlockMenu)

\* The process is terminated while the loop of caller l awaits
\* saveProcessingHeight for a block it has indexed, and is started again: the
\* service's fields are those of a new instance, the calls in flight (the
\* checkpoint save, the detached saveAnchor calls) have reached the store or
\* are lost, and the store keeps what it holds.
Crash ==
    /\ ~ crash.happened
    /\ \E l \in callers :
          /\ scan[l].pc = "saveProcessingHeight"
          /\ \E applied \in SUBSET pending, saved \in BOOLEAN :
                LET stored == anchors \cup {<<w.hash, w.tx>> : w \in applied}
                IN  /\ anchors' = stored
                    /\ heightValue' =
                          IF saved THEN SaveProcessingHeight(scan[l].lastHeight)
                                   ELSE heightValue
                    /\ crash' = [happened |-> TRUE,
                                 height |-> scan[l].lastHeight,
                                 anchors |-> stored,
                                 childs |-> childs, parents |-> parents]
    /\ pending' = {}
    /\ processing' = FALSE
    /\ lastBlock' = 0
    /\ scan' = [l \in Callers |-> IdleLoop]
    /\ UNCHANGED <<chain, startingBlock, callers, unhandled>>
    /\ UNCHANGED <<assocVars, indexVars, roleVars>>

\* The node appends a block that holds one transfer.
NewTransferBlock == Produce({<<Transfer>>})

(* -------------------------- association graph ------------------------- *)

\* saveAssociation is not called once the graph holds MaxEdges edges.
MaxEdges == 3

Addresses == {"A", "B", "C", "D"}

NoAddress == "-"

\* storage.sadd(key, member) and storage.srem(key, member) on the sets of one
\* kind (childs or parents), keyed by address.
Sadd(sets, address, member) == [sets EXCEPT ![address] = @ \cup {member}]

Srem(sets, address, member) == [sets EXCEPT ![address] = @ \ {member}]

\* The edges the childs sets hold.
Edges == {e \in Addresses \X Addresses : e[2] \in childs[e[1]]}

NoOp == [name |-> "none", sender |-> NoAddress, party |-> NoAddress,
         pc |-> "done"]

\* A call of recurRemoveAssociation(address), suspended on getArray.
Frame(address) ==
    [address |-> address, todo |-> {}, child |-> NoAddress, pc |-> "getArray"]

Top == stack[Len(stack)]

RECURSIVE Unwind(_)
\* The calls of recurRemoveAssociation whose for loop has no child left
\* return, innermost first.
Unwind(st) ==
    IF st = <<>> THEN st
    ELSE IF st[Len(st)].todo = {} THEN Unwind(SubSeq(st, 1, Len(st) - 1))
         ELSE st

\* recurRemoveAssociation's for (const child of childAssocs) goes on in the
\* innermost call that has a child left (in the order getArray returned them,
\* which is any order) and issues its first srem; if no call is left
\* removeAssociation returns.
Continue(st) ==
    LET u == Unwind(st)
    IN  IF u = <<>>
        THEN /\ stack' = <<>>
             /\ op' = [op EXCEPT !.pc = "done"]
        ELSE /\ \E child \in u[Len(u)].todo :
                   stack' = [u EXCEPT ![Len(u)] =
                               [@ EXCEPT !.todo = @ \ {child}, !.child = child,
                                         !.pc = "sremChilds"]]
             /\ UNCHANGED op

\* No association operation is in progress and none has thrown (an error
\* thrown by one is fatal to the scanner that calls them).
Idle == op.pc = "done"

\* saveAssociation(transaction) is called: its first sadd is issued.
SaveAssociation(sender, party) ==
    /\ Idle
    /\ Cardinality(Edges \cup {<<sender, party>>}) <= MaxEdges
    /\ op' = [name |-> "saveAssociation", sender |-> sender, party |-> party,
              pc |-> "childs"]
    /\ pre' = [childs |-> childs, parents |-> parents]
    /\ UNCHANGED <<childs, parents, stack>>
    /\ UNCHANGED <<scannerVars, indexVars, roleVars>>

\* saveAssociation: await sadd(`lto:assoc:${sender}:childs`, party) settles.
SaveChilds ==
    /\ op.name = "saveAssociation"
    /\ op.pc = "childs"
    /\ childs' = Sadd(childs, op.sender, op.party)
    /\ op' = [op EXCEPT !.pc = "parents"]
    /\ UNCHANGED <<parents, stack, pre>>
    /\ UNCHANGED <<scannerVars, indexVars, roleVars>>

\* A saveAssociation that does not write the parents set.
SaveParentsMissing ==
    /\ op.name = "saveAssociation"
    /\ op.pc = "parents"
    /\ op' = [op EXCEPT !.pc = "done"]
    /\ UNCHANGED <<childs, parents, stack, pre>>
    /\ UNCHANGED <<scannerVars, indexVars, roleVars>>

\* saveAssociation: await sadd(`lto:assoc:${party}:parents`, sender) settles.
SaveParents ==
    /\ op.name = "saveAssociation"
    /\ op.pc = "parents"
    /\ parents' = Sadd(parents, op.party, op.sender)
    /\ op' = [op EXCEPT !.pc = "done"]
    /\ UNCHANGED <<childs, stack, pre>>
    /\ UNCHANGED <<scannerVars, indexVars, roleVars>>

\* removeAssociation(transaction) is called: its first srem is issued.
RemoveAssociation(sender, party) ==
    /\ Idle
    /\ op' = [name |-> "removeAssociation", sender |-> sender,
              party |-> party, pc |-> "childs"]
    /\ pre' = [childs |-> childs, parents |-> parents]
    /\ UNCHANGED <<childs, parents, stack>>
    /\ UNCHANGED <<scannerVars, indexVars, roleVars>>

\* removeAssociation: await srem(`lto:assoc:${sender}:childs`, party) settles.
RemoveChilds ==
    /\ op.name = "removeAssociation"
    /\ op.pc = "childs"
    /\ childs' = Srem(childs, op.sender, op.party)
    /\ op' = [op EXCEPT !.pc = "parents"]
    /\ UNCHANGED <<parents, stack, pre>>
    /\ UNCHANGED <<scannerVars, indexVars, roleVars>>

\* removeAssociation: await srem(`lto:assoc:${party}:parents`, sender)
\* settles; recurRemoveAssociation(party) is called.
RemoveParents ==
    /\ op.name = "removeAssociation"
    /\ op.pc = "parents"
    /\ parents' = Srem(parents, op.party, op.sender)
    /\ op' = [op EXCEPT !.pc = "recur"]
    /\ stack' = <<Frame(op.party)>>
    /\ UNCHANGED <<childs, pre>>
    /\ UNCHANGED <<scannerVars, indexVars, roleVars>>

\* recurRemoveAssociation: await getArray(`lto:assoc:${address}:childs`)
\* settles; the for loop over the children starts.
GetArray ==
    /\ op.pc = "recur"
    /\ Top.pc = "getArray"
    /\ Continue([stack EXCEPT ![Len(stack)] =
                   [@ EXCEPT !.todo = childs[Top.address], !.pc = "recur"]])
    /\ UNCHANGED <<childs, parents, pre>>
    /\ UNCHANGED <<scannerVars, indexVars, roleVars>>

\* A recurRemoveAssociation whose srem on the childs set removes nothing.
RecurChildsKeeps ==
    /\ op.pc = "recur"
    /\ Top.pc = "sremChilds"
    /\ stack' = [stack EXCEPT ![Len(stack)].pc = "sremParents"]
    /\ UNCHANGED <<childs, parents, op, pre>>
    /\ UNCHANGED <<scannerVars, indexVars, roleVars>>

\* recurRemoveAssociation: await srem(`lto:assoc:${address}:childs`, child)
\* settles.
RecurChilds ==
    /\ op.pc = "recur"
    /\ Top.pc = "sremChilds"
    /\ childs' = Srem(childs, Top.address, Top.child)
    /\ stack' = [stack EXCEPT ![Len(stack)].pc = "sremParents"]
    /\ UNCHANGED <<parents, op, pre>>
    /\ UNCHANGED <<scannerVars, indexVars, roleVars>>

\* A recurRemoveAssociation that does not call itself for the child.
RecurParentsFlat ==
    /\ op.pc = "recur"
    /\ Top.pc = "sremParents"
    /\ parents' = Srem(parents, Top.child, Top.address)
    /\ Continue([stack EXCEPT ![Len(stack)].pc = "recur"])
    /\ UNCHANGED <<childs, pre>>
    /\ UNCHANGED <<scannerVars, indexVars, roleVars>>

\* recurRemoveAssociation: await srem(`lto:assoc:${child}:parents`, address)
\* settles; recurRemoveAssociation(child) is called.
RecurParents ==
    /\ op.pc = "recur"
    /\ Top.pc = "sremParents"
    /\ parents' = Srem(parents, Top.child, Top.address)
    /\ stack' = Append([stack EXCEPT ![Len(stack)].pc = "recur"],
                       Frame(Top.child))
    /\ UNCHANGED <<childs, op, pre>>
    /\ UNCHANGED <<scannerVars, indexVars, roleVars>>

\* The storage call an association operation awaits throws: the operation
\* rejects where it stands.
StorageFails ==
    /\ op.pc \in {"childs", "parents", "recur"}
    /\ op' = [op EXCEPT !.pc = "failed"]
    /\ stack' = <<>>
    /\ UNCHANGED <<childs, parents, pre>>
    /\ UNCHANGED <<scannerVars, indexVars, roleVars>>

NoAssociations ==
    /\ childs = [a \in Addresses |-> {}]
    /\ parents = [a \in Addresses |-> {}]
    /\ op = NoOp
    /\ stack = <<>>
    /\ pre = [childs |-> childs, parents |-> parents]

(* ------------------------------ ranked index --------------------------- *)

\* Transactions have the ids 0 .. MaxIds (an id stands for the id string; the
\* order of the numbers for the order of the strings).
MaxIds == 3

\* A transfer has at most MaxTransfers transfer sub-entries.
MaxTransfers == 2

\* getTx is called with limit and offset in 0 .. MaxLimit.
MaxLimit == 3

Sender == "S"

Recipient == "R"

\* The recipients of the transfer sub-entries, in order.
TransferRecipients == <<"T1", "T2", "T3">>

\* The transaction with a given id: id 0 is an anchor transaction (type 12)
\* that has a sender only; the others are transfers (type 4) with a sender, a
\* recipient and 0 to MaxTransfers transfer sub-entries.
TxOf(id) ==
    IF id = 0
    THEN [id |-> id, type |-> 12, sender |-> Sender, recipient |-> NoAddress,
          transfers |-> <<>>]
    ELSE [id |-> id, type |-> 4, sender |-> Sender, recipient |-> Recipient,
          transfers |-> [k \in 1 .. ((id - 1) % (MaxTransfers + 1)) |->
                            [recipient |-> TransferRecipients[k]]]]

\* The type name the indexer derives from the type tag.
TypeName(type) == IF type = 4 THEN "transfer" ELSE "anchor"

\* The keys of the ranked index: lto:tx:<type>:<address>.
Keys ==
    {"transfer", "anchor"} \X
       ({Sender, Recipient} \cup
        {TransferRecipients[k] : k \in 1 .. MaxTransfers})

\* A sorted set is a set of entries <<member, score>>, one per member.
\* ZCARD key
Zcard(z) == Cardinality(z)

\* ZADD key score member: the member is added with the score, or its score is
\* updated when it is in the set already.
Zadd(z, score, member) == {e \in z : e[1] # member} \cup {<<member, score>>}

\* The order of a sorted set: by score, members of equal score by member.
Before(e, f) == e[2] < f[2] \/ (e[2] = f[2] /\ e[1] < f[1])

RECURSIVE Order(_)
\* The members of a sorted set in its order.
Order(z) ==
    IF z = {} THEN <<>>
    ELSE LET e == CHOOSE x \in z : \A y \in z : x = y \/ Before(x, y)
         IN  <<e[1]>> \o Order(z \ {e})

Min(a, b) == IF a <= b THEN a ELSE b

\* ZRANGE key start stop: the members at the zero-based positions
\* start .. stop, both inclusive; a negative position counts from the end
\* (-1 is the last member).
Zrange(z, start, stop) ==
    LET n == Cardinality(z)
        a == IF start < 0 THEN Max(n + start, 0) ELSE start
        b == IF stop < 0 THEN n + stop ELSE Min(stop, n - 1)
    IN  IF a > b \/ a >= n THEN <<>> ELSE SubSeq(Order(z), a + 1, b + 1)

\* RedisConnection.zrangePaginate(key, limit, offset), limit and offset given
\* as decimal strings:
\*   start = Number(offset); stop = (Number(limit) - 1) + start
ZrangePaginate(z, limit, offset) ==
    LET start == Number(offset)
        stop  == (Number(limit) - 1) + start
    IN  Zrange(z, start, stop)

\* An indexer that leaves out the transfer sub-entries.
IndexedAddressesNoTransfers(tx) ==
    <<tx.sender>> \o
    (IF tx.recipient # NoAddress THEN <<tx.recipient>> ELSE <<>>)

\* AnchorIndexerService.index: the addresses the transaction is indexed
\* under, in order: the sender, the recipient if it has one, the recipient of
\* each transfer sub-entry.
IndexedAddresses(tx) ==
    <<tx.sender>> \o
    (IF tx.recipient # NoAddress THEN <<tx.recipient>> ELSE <<>>) \o
    [k \in 1 .. Len(tx.transfers) |-> tx.transfers[k].recipient]

NoJob == [id |-> 0, addresses |-> <<>>, pos |-> 0, pc |-> "none"]

NoCall == [key |-> <<"anchor", Sender>>, member |-> 0, number |-> 0,
           pc |-> "none"]

NoPage == [key |-> <<"anchor", Sender>>, limit |-> 0, offset |-> 0,
           order |-> <<>>, result |-> <<>>, pc |-> "none"]

\* storage.indexTx(type, address, transactionId, timestamp) is called for the
\* address at position pos of the job: zaddIncr awaits zcard(key).
IndexTx(j, pos) ==
    LET tx == TxOf(j.id)
    IN  /\ job' = [j EXCEPT !.pos = pos, !.pc = "indexTx"]
        /\ call' = [key |-> <<TypeName(tx.type), j.addresses[pos]>>,
                    member |-> tx.id, number |-> 0, pc |-> "zcard"]
        /\ log' = Append(IF pos = 1 THEN <<>> ELSE log,
                         <<TypeName(tx.type), j.addresses[pos], tx.id>>)

\* indexer.index(transaction) is called (by processTransaction, one call at a
\* time): its first indexTx is issued.
IndexerIndex(id) ==
    /\ job.pc \in {"none", "done"}
    /\ IndexTx([id |-> id, addresses |-> IndexedAddresses(TxOf(id)),
                pos |-> 0, pc |-> "indexTx"], 1)
    /\ UNCHANGED <<ranked, page>>
    /\ UNCHANGED <<scannerVars, assocVars, roleVars>>

\* zaddIncr: const number = await this.zcard(key) settles; zadd is called.
ZaddIncrZcard ==
    /\ call.pc = "zcard"
    /\ call' = [call EXCEPT !.number = Zcard(ranked[call.key]), !.pc = "zadd"]
    /\ UNCHANGED <<ranked, job, log, page>>
    /\ UNCHANGED <<scannerVars, assocVars, roleVars>>

\* zaddIncr: this.connection.zadd(key, String(number), ...members) settles;
\* the indexer goes on to the next address, or index() returns.
ZaddIncrZadd ==
    /\ call.pc = "zadd"
    /\ ranked' = [ranked EXCEPT ![call.key] =
                    Zadd(@, Number(String(call.number)), call.member)]
    /\ IF job.pos < Len(job.addresses)
       THEN IndexTx(job, job.pos + 1)
       ELSE /\ job' = [job EXCEPT !.pc = "done"]
            /\ call' = [call EXCEPT !.pc = "done"]
            /\ UNCHANGED log
    /\ UNCHANGED page
    /\ UNCHANGED <<scannerVars, assocVars, roleVars>>

\* getTx(type, address, limit, offset) -> zrangePaginate(key, limit, offset).
GetTx(key, limit, offset) ==
    /\ page' = [key |-> key, limit |-> limit, offset |-> offset,
                order |-> Order(ranked[key]),
                result |-> ZrangePaginate(ranked[key], String(limit),
                                          String(offset)),
                pc |-> "done"]
    /\ UNCHANGED <<ranked, job, call, log>>
    /\ UNCHANGED <<scannerVars, assocVars, roleVars>>

NoIndex ==
    /\ ranked = [k \in Keys |-> {}]
    /\ job = NoJob
    /\ call = NoCall
    /\ log = <<>>
    /\ page = NoPage

(* ----------------------------- trust roles ----------------------------- *)

\* config.getTrustNetworkRoles(): the role-definition table.  A role may
\* issue roles (entries with a type code and a role name) and authorizations;
\* "node" issues nothing, and "ghost" is no role of the table.
configRoles ==
    [validator |-> [issues |-> << [type |-> 100, role |-> "node"],
                                  [type |-> 101, role |-> "agent"] >>,
                    authorization |-> <<"tx:anchor">>],
     authority |-> [issues |-> << [type |-> 102, role |-> "node"],
                                  [type |-> 103, role |-> "validator"] >>,
                    authorization |-> <<"tx:anchor", "tx:role">>],
     node      |-> [issues |-> <<>>, authorization |-> <<>>]]

\* The role names a transaction may assign.
RoleNames == {"validator", "authority", "node", "ghost"}

\* The role-type code of the transactions that assign a role.
RoleTypes == {1}

Grantor == "G"

\* An aggregation of the issues lists that keeps every entry.
PushIssuesAll(acc, items) == acc \o items

RECURSIVE PushIssues(_, _)
\* configData.issues?.forEach(eachIssues => { if (result.issues_roles
\*   .findIndex(each => each.role === eachIssues.role) === -1)
\*   result.issues_roles.push(eachIssues) })
PushIssues(acc, items) ==
    IF items = <<>> THEN acc
    ELSE LET x == Head(items)
         IN  PushIssues(IF \E i \in 1 .. Len(acc) : acc[i].role = x.role
                        THEN acc ELSE Append(acc, x),
                        Tail(items))

RECURSIVE PushAuthorization(_, _)
\* configData.authorization?.forEach(eachAuthorization => { if
\*   (result.issues_authorization.findIndex(each => each ===
\*   eachAuthorization) === -1) result.issues_authorization.push(...) })
PushAuthorization(acc, items) ==
    IF items = <<>> THEN acc
    ELSE LET x == Head(items)
         IN  PushAuthorization(IF \E i \in 1 .. Len(acc) : acc[i] = x
                               THEN acc ELSE Append(acc, x),
                               Tail(items))

RECURSIVE Aggregate(_, _)
\* getTrustNetworkRoles: for (const role in roles), over the keys of the
\* stored object in their order; a role with no configData is passed over.
Aggregate(result, doc) ==
    IF doc = <<>> THEN result
    ELSE LET role == Head(doc).role
         IN  IF role \in DOMAIN configRoles
             THEN Aggregate(
                    [roles |-> Append(result.roles, role),
                     issues_roles |->
                        PushIssues(result.issues_roles,
                                   configRoles[role].issues),
                     issues_authorization |->
                        PushAuthorization(result.issues_authorization,
                                          configRoles[role].authorization)],
                    Tail(doc))
             ELSE Aggregate(result, Tail(doc))

\* StorageService.getTrustNetworkRoles, given the object getObject returned.
GetTrustNetworkRoles(doc) ==
    Aggregate([roles |-> <<>>, issues_roles |-> <<>>,
               issues_authorization |-> <<>>], doc)

\* roles[data.role] = { sender, type: data.type }: the entry of an existing
\* key is overwritten in place, a new key comes last.
SetRole(doc, role, sender, type) ==
    LET entry == [role |-> role, sender |-> sender, type |-> type]
    IN  IF \E i \in 1 .. Len(doc) : doc[i].role = role
        THEN [i \in 1 .. Len(doc) |->
                 IF doc[i].role = role THEN entry ELSE doc[i]]
        ELSE Append(doc, entry)

NoRoleOp == [role |-> "node", type |-> 0, roles |-> <<>>, pc |-> "done"]

NoRoleData == [assigned |-> <<>>, roles |-> <<>>, issues_roles |-> <<>>,
               issues_authorization |-> <<>>, pc |-> "none"]

\* saveTrustNetworkRole(recipient, sender, data) is called: getObject is
\* awaited.
SaveTrustNetworkRole(role, type) ==
    /\ roleOp.pc = "done"
    /\ roleOp' = [role |-> role, type |-> type, roles |-> <<>>,
                  pc |-> "getObject"]
    /\ UNCHANGED <<roleDoc, roleData>>
    /\ UNCHANGED <<scannerVars, assocVars, indexVars>>

\* saveTrustNetworkRole: await getObject settles; the entry is set and
\* addObject is called with the object.
SaveRoleGetObject ==
    /\ roleOp.pc = "getObject"
    /\ roleOp' = [roleOp EXCEPT
                    !.roles = SetRole(roleDoc, roleOp.role, Grantor,
                                      roleOp.type),
                    !.pc = "addObject"]
    /\ UNCHANGED <<roleDoc, roleData>>
    /\ UNCHANGED <<scannerVars, assocVars, indexVars>>

\* saveTrustNetworkRole: addObject settles.
SaveRoleAddObject ==
    /\ roleOp.pc = "addObject"
    /\ roleDoc' = roleOp.roles
    /\ roleOp' = [roleOp EXCEPT !.pc = "done"]
    /\ UNCHANGED roleData
    /\ UNCHANGED <<scannerVars, assocVars, indexVars>>

\* getTrustNetworkRoles(address): await getObject settles and the result is
\* returned.
GetRoles ==
    /\ LET result == GetTrustNetworkRoles(roleDoc)
       IN  roleData' =
              [assigned |-> [i \in 1 .. Len(roleDoc) |-> roleDoc[i].role],
               roles |-> result.roles,
               issues_roles |-> result.issues_roles,
               issues_authorization |-> result.issues_authorization,
               pc |-> "done"]
    /\ UNCHANGED <<roleDoc, roleOp>>
    /\ UNCHANGED <<scannerVars, assocVars, indexVars>>

NoRoles ==
    /\ roleDoc = <<>>
    /\ roleOp = NoRoleOp
    /\ roleData = NoRoleData

\* The heights a checkpoint or a configured starting block may hold.
Heights == 0 .. MaxHeight

\* The service before start() is called, but for the ranked index.
InitService ==
    /\ chain = <<>>
    /\ startingBlock \in {[last |-> TRUE, height |-> 0]} \cup
                         {[last |-> FALSE, height |-> h] : h \in Heights}
    /\ heightValue \in {NoValue} \cup {String(h) : h \in Heights}
    /\ anchors = {}
    /\ pending = {}
    /\ processing = FALSE
    /\ lastBlock = 0
    /\ scan = [l \in Callers |-> IdleLoop]
    /\ unhandled = {}
    /\ crash = NoCrash
    /\ NoAssociations
    /\ NoRoles

InitScanner ==
    /\ InitService
    /\ NoIndex

\* The service as the application runs it: start() is called once.
Init ==
    /\ InitScanner
    /\ callers = {1}

Next ==
    \/ \E l \in Callers :
          \/ Start(l)
          \/ StartHeight(l)
          \/ Delay(l)
          \/ CurrentHeight(l)
          \/ ProcessingHeight(l)
          \/ GetBlock(l)
          \/ Index(l)
          \/ SaveAnchorDone(l)
          \/ SaveHeightDone(l)
    \/ DetachedSaveAnchor
    \/ NewBlock

Spec == Init /\ [][Next]_vars

\* A step of the loop of caller l: an awaited call of the loop settles.
Loop(l) ==
    \/ Start(l)
    \/ StartHeight(l)
    \/ Delay(l)
    \/ CurrentHeight(l)
    \/ ProcessingHeight(l)
    \/ GetBlock(l)
    \/ Index(l)
    \/ SaveAnchorDone(l)
    \/ SaveHeightDone(l)

\* The service as the application runs it, on an event loop that runs every
\* continuation that is ready: an awaited call of the loop settles in the end.
SpecLive == Init /\ [][Next]_vars /\ \A l \in Callers : WF_vars(Loop(l))

\* The service started on a store that holds nothing, terminated once after a
\* block was indexed, and started again.
InitRescan ==
    /\ Init
    /\ heightValue = NoValue

NextRescan ==
    \/ Next
    \/ Crash

SpecRescan == InitRescan /\ [][NextRescan]_vars

\* The association operations of StorageService, called one after the other
\* on a store that holds no association; the scanner is not started.
InitAssoc ==
    /\ InitScanner
    /\ startingBlock.last
    /\ heightValue = NoValue
    /\ callers = {}

NextAssoc ==
    \/ \E sender, party \in Addresses :
          \/ SaveAssociation(sender, party)
          \/ RemoveAssociation(sender, party)
    \/ SaveChilds
    \/ SaveParents
    \/ RemoveChilds
    \/ RemoveParents
    \/ GetArray
    \/ RecurChilds
    \/ RecurParents
    \/ StorageFails

SpecAssoc == InitAssoc /\ [][NextAssoc]_vars

\* A step of removeAssociation: the storage call it awaits resolves.
CascadeStep ==
    \/ RemoveChilds
    \/ RemoveParents
    \/ GetArray
    \/ RecurChilds
    \/ RecurParents

\* The addresses of the transactions in the specification of the cascade: a
\* parent and the addresses of a cycle of length one, two or three.
CycleAddresses == {"A", "B", "C"}

\* A storage call of saveAssociation resolves.
SaveStep ==
    \/ SaveChilds
    \/ SaveParents

NextCycle ==
    \/ \E sender, party \in CycleAddresses :
          \/ SaveAssociation(sender, party)
          \/ RemoveAssociation(sender, party)
    \/ SaveStep
    \/ CascadeStep
    \/ StorageFails

\* The association operations among CycleAddresses, when every storage call
\* that removeAssociation awaits and that does not throw resolves in the end
\* (the event loop settles a pending promise).
SpecCycle == InitAssoc /\ [][NextCycle]_vars /\ WF_vars(CascadeStep)

\* The indexer and the readers of the ranked index, on a store that holds no
\* index entry; the indexer is called for one transaction at a time, with a
\* transaction not indexed before or with one indexed before (a block that is
\* processed again).
NextIndex ==
    \/ \E id \in 0 .. MaxIds : IndexerIndex(id)
    \/ ZaddIncrZcard
    \/ ZaddIncrZadd

SpecIndex == InitAssoc /\ [][NextIndex]_vars

RECURSIVE Entries(_)
\* The sorted set of a key after indexTx was called for it with the ids
\* 1 .. n in turn.
Entries(n) ==
    IF n = 0 THEN {}
    ELSE LET z == Entries(n - 1) IN Zadd(z, Zcard(z), n)

\* getTx is called on an index that holds, under the sender and under the
\* recipient, the transfers 1 .. n.
InitPages ==
    /\ InitService
    /\ startingBlock.last
    /\ heightValue = NoValue
    /\ callers = {}
    /\ job = NoJob
    /\ call = NoCall
    /\ log = <<>>
    /\ page = NoPage
    /\ \E n \in 0 .. MaxIds :
          ranked = [k \in Keys |->
                      IF k \in {<<"transfer", Sender>>, <<"transfer", Recipient>>}
                      THEN Entries(n) ELSE {}]

NextPages ==
    \E key \in Keys, limit, offset \in 0 .. MaxLimit :
       GetTx(key, limit, offset)

SpecPages == InitPages /\ [][NextPages]_vars

\* The trust roles of one address: roles are assigned and the roles are
\* read.
NextRoles ==
    \/ \E role \in RoleNames, type \in RoleTypes :
          SaveTrustNetworkRole(role, type)
    \/ SaveRoleGetObject
    \/ SaveRoleAddObject
    \/ GetRoles

SpecRoles == InitAssoc /\ [][NextRoles]_vars

\* start() is called by every caller (the service's public method is called
\* again while an earlier call's loop is running), configured to start at the
\* node's last block, on a chain of transfers and with no checkpoint stored.
InitReentrant ==
    /\ InitScanner
    /\ startingBlock.last
    /\ heightValue = NoValue
    /\ callers = Callers

NextReentrant ==
    \/ \E l \in Callers :
          \/ Start(l)
          \/ StartHeight(l)
          \/ Delay(l)
          \/ CurrentHeight(l)
          \/ ProcessingHeight(l)
          \/ GetBlock(l)
          \/ Index(l)
          \/ SaveHeightDone(l)
    \/ NewTransferBlock

SpecReentrant == InitReentrant /\ [][NextReentrant]_vars

(* --------------------- claims about the block scanner ------------------ *)

\* The sequence a, a + 1, ..., b (empty when b < a).
Range(a, b) == [i \in 1 .. (b - a + 1) |-> a + i - 1]

\* processTransaction called and returned for transactions 1 .. n, in order.
CallsAndReturns(n) ==
    [k \in 1 .. 2 * n |-> IF k % 2 = 1 THEN <<"call", (k + 1) \div 2>>
                                       ELSE <<"ret", k \div 2>>]

Elements(seq) == {seq[i] : i \in 1 .. Len(seq)}

\* The stored checkpoint is at least h.
CheckpointAtLeast(h) == heightValue # NoValue /\ Checkpoint >= h

\* C1: in a scan pass saveProcessingHeight(h) is invoked once per block h of
\* the pass, in the order of the heights, and when it is invoked for h
\* processTransaction has been called and has returned for every transaction
\* of block h, in the block's order; it has not been invoked for a block whose
\* transactions are still being processed.
C1_SaveAfterAllTransactions ==
    \A l \in Callers :
       LET s == scan[l]
       IN  /\ s.pc = "saveProcessingHeight" =>
                /\ s.txlog = CallsAndReturns(Len(chain[s.lastHeight]))
                /\ s.saved = Range(s.first, s.lastHeight)
           /\ s.pc \in {"getBlock", "index", "saveAnchor"} =>
                s.saved = Range(s.first, s.lastHeight - 1)
           /\ (s.pc = "delay" /\ s.first > 0) =>
                s.saved = Range(s.first, s.currentHeight)

\* C1 witness: saveProcessingHeight has been invoked for the second block of
\* a pass, a block of two transactions.
C1_Witness ==
    \E l \in Callers :
       /\ scan[l].pc = "saveProcessingHeight"
       /\ Len(scan[l].saved) = 2
       /\ Len(chain[scan[l].lastHeight]) = 2
       /\ Len(scan[l].txlog) = 4

\* C2: a saveAnchor issued for a type-15 transaction has settled when
\* processTransaction returns for that transaction, and so before the
\* checkpoint of its block is saved by the pass.
C2_AnchorWritesAwaited ==
    \A w \in pending :
       \A l \in Callers :
          LET s == scan[l]
          IN  /\ ~ (/\ s.pc \in {"index", "saveAnchor", "saveProcessingHeight"}
                    /\ s.lastHeight = w.height
                    /\ <<"ret", w.tx[2]>> \in Elements(s.txlog))
              /\ ~ (/\ InPass(s)
                    /\ w.height \in Elements(s.saved)
                    /\ s.lastHeight > w.height
                    /\ CheckpointAtLeast(w.height))

\* C3: within a pass the heights fetched are consecutive, and while a
\* transaction of block h2 is indexed the stored checkpoint is at least h1 for
\* every lower height h1 the scanner has processed.
C3_BlocksInOrder ==
    \A l \in Callers :
       LET s == scan[l]
       IN  /\ \A i \in 1 .. Len(s.fetched) - 1 :
                 s.fetched[i + 1] = s.fetched[i] + 1
           /\ s.pc \in {"index", "saveAnchor"} =>
                 \A h1 \in s.began :
                    h1 < s.lastHeight => CheckpointAtLeast(h1)

\* C3 witness: the first transaction of block 2 is being indexed in a pass
\* that fetched block 1 before it.
C3_Witness ==
    \E l \in Callers :
       /\ scan[l].pc = "index"
       /\ scan[l].txi = 1
       /\ scan[l].fetched = <<1, 2>>
       /\ scan[l].began = {1, 2}

\* The latest pass of s has computed its first height (heights start at 1).
Computed(s) == s.first > 0

\* C4 as claimed: the first height of a pass is
\* max(saved checkpoint, lastBlock) + 1.
C4_FirstIsMaxPlusOne ==
    \A l \in Callers :
       LET s == scan[l]
       IN  Computed(s) =>
              s.first = Max(IF s.got = null THEN 0 ELSE s.got, lastBlock) + 1

\* C4 amended: the first height of a pass is the stored checkpoint + 1 when a
\* checkpoint other than 0 is stored and read, whatever lastBlock is, and
\* lastBlock + 1 otherwise (no checkpoint, checkpoint 0, failed read); with a
\* configured starting height lastBlock is that height.
C4_FirstIsCheckpointElseLastBlock ==
    \A l \in Callers :
       LET s == scan[l]
           stored == s.read = "ok" /\ s.before # NoValue /\ Number(s.before) # 0
       IN  Computed(s) =>
              /\ stored => s.first = Number(s.before) + 1
              /\ ~ stored => s.first = lastBlock + 1
              /\ ~ startingBlock.last => lastBlock = startingBlock.height

\* C4 witness: a pass that read a checkpoint lower than lastBlock and starts
\* right after the checkpoint.
C4_Witness ==
    \E l \in Callers :
       /\ Computed(scan[l])
       /\ scan[l].read = "ok"
       /\ scan[l].got # null
       /\ 0 < scan[l].got
       /\ scan[l].got < lastBlock
       /\ scan[l].first = scan[l].got + 1
       /\ scan[l].pc = "getBlock"

\* C5: a call that throws while block h is processed -- here a saveAnchor of a
\* type-15 transaction -- makes start() reject with the pass stopped at h.
C5_ThrowAbortsPass ==
    \A f \in unhandled :
       f.step = "saveAnchor" =>
          \E l \in callers :
             /\ scan[l].pc = "rejected"
             /\ scan[l].lastHeight = f.height

\* C6: at most one scan pass is in flight.
C6_OnePassInFlight ==
    Cardinality({l \in Callers : InPass(scan[l])}) <= 1

\* C7: a failed read of the checkpoint does not abort the pass:
\* getProcessingHeight returns null and the pass starts at lastBlock + 1, as
\* with no checkpoint stored.
C7_ReadFailureSwallowed ==
    \A l \in Callers :
       LET s == scan[l]
       IN  s.read = "failed" =>
              /\ s.cause # "getProcessingHeight"
              /\ s.got = null
              /\ s.first = lastBlock + 1
              /\ s.pc # "rejected" => (s.first <= s.currentHeight <=> s.fetched # <<>>)

\* C7 witness: the read failed while a checkpoint was stored that would have
\* given another first height, and the pass goes on to fetch a block.
C7_Witness ==
    \E l \in Callers :
       /\ scan[l].read = "failed"
       /\ scan[l].before # NoValue
       /\ Number(scan[l].before) \notin {0, lastBlock}
       /\ scan[l].pc = "getBlock"

\* C8: a decode failure on an anchor item never aborts the pass.
C8_DecodeFailureSkipped ==
    \A l \in Callers : scan[l].cause # "decode"

\* The hashes processTransaction may record for the transaction tx: for type
\* 12 the decoded values of the items under the anchor token, for type 15 the
\* decoded anchors, for any other type none.
AnchorHashes(tx) ==
    (IF tx.type = 12
     THEN {Decode(tx.data[k].value) :
              k \in {m \in 1 .. Len(tx.data) : tx.data[m].key = anchorToken}}
     ELSE IF tx.type = 15
          THEN {Decode(tx.anchors[k]) : k \in 1 .. Len(tx.anchors)}
          ELSE {}) \ {DecodeError}

\* The indexer has been called for transaction i of the block the loop of
\* caller l is processing, a block of height h.
IndexerCalled(l, h, i) ==
    /\ scan[l].lastHeight = h
    /\ scan[l].txi = i
    /\ <<"call", i>> \in Elements(scan[l].txlog)

\* C17: processTransaction calls the indexer for every transaction of a block,
\* of any type, and an anchor write is issued only after the indexer call for
\* its transaction has settled; every anchor record entry, written or in
\* flight, names a transaction of type 12 or 15 and a hash that transaction
\* carries as an anchor -- for type 12 under the anchor token: a transaction
\* of another type and a data item under another key create or change nothing.
C17_IndexedThenClassified ==
    /\ [](/\ \A p \in anchors : p[1] \in AnchorHashes(chain[p[2][1]][p[2][2]])
          /\ \A w \in pending :
                w.hash \in AnchorHashes(chain[w.tx[1]][w.tx[2]])
          /\ \A l \in Callers :
                scan[l].pc = "saveProcessingHeight" =>
                   \A i \in 1 .. Len(chain[scan[l].lastHeight]) :
                      <<"call", i>> \in Elements(scan[l].txlog))
    /\ [][/\ \A w \in pending' \ pending :
                \E l \in Callers : /\ scan[l].pc = "index"
                                   /\ IndexerCalled(l, w.tx[1], w.tx[2])
          /\ \A p \in anchors' \ anchors :
                \/ \E w \in pending : p = <<w.hash, w.tx>>
                \/ \E l \in Callers : /\ scan[l].pc = "saveAnchor"
                                      /\ IndexerCalled(l, p[2][1], p[2][2])]_vars

\* C17 witness: the block of a type-12 transaction with an item under another
\* key, followed by a transfer, has been processed: the indexer was called for
\* both, the two anchors are recorded and nothing else is.
C17_Witness ==
    \E l \in Callers :
       /\ scan[l].pc = "saveProcessingHeight"
       /\ chain[scan[l].lastHeight] = <<Data12, Transfer>>
       /\ scan[l].txlog = CallsAndReturns(2)
       /\ anchors = {<<Decode("h1"), <<scan[l].lastHeight, 1>>>>,
                     <<Decode("h2"), <<scan[l].lastHeight, 1>>>>}

\* C19: every saveProcessingHeight that settles writes a value greater than
\* the value persisted before it (any value when none was persisted), so the
\* persisted checkpoint never decreases.
C19_CheckpointIncreases ==
    [][\A l \in Callers :
          (/\ scan[l].pc = "saveProcessingHeight"
           /\ scan'[l].pc \in {"getBlock", "delay"}) =>
             \/ heightValue = NoValue
             \/ Number(heightValue') > Number(heightValue)]_vars

\* No node or storage call has failed: none made start() reject, no read of
\* the checkpoint was swallowed, no detached saveAnchor was rejected.
NoCallFails ==
    /\ \A l \in Callers : /\ scan[l].cause \in {"none", "decode"}
                          /\ scan[l].read # "failed"
    /\ \A f \in unhandled : f.step # "saveAnchor"

\* The pass of caller l is to process the block of height h.
PassCovers(l, h) ==
    /\ InPass(scan[l])
    /\ Computed(scan[l])
    /\ scan[l].first <= h
    /\ h <= scan[l].currentHeight

\* C18: if no node or storage call fails, then under weak fairness of the
\* loop every scan pass ends with processing = false, and the stored
\* checkpoint eventually reaches every height the node reported to a pass that
\* started at or below it.
C18_ScanProgresses ==
    ([]NoCallFails) =>
       /\ \A l \in Callers : InPass(scan[l]) ~> ~ processing
       /\ \A l \in Callers : \A h \in 1 .. MaxHeight :
             PassCovers(l, h) ~> CheckpointAtLeast(h)

\* The transaction an anchor record entry p = <<hash, <<height, position>>>>
\* names.
TransactionOf(p) == chain[p[2][1]][p[2][2]]

IsPrefix(a, b) == Len(a) <= Len(b) /\ SubSeq(b, 1, Len(a)) = a

\* C13: an indexTx leaves the entries of every ranked sequence in the order
\* they had, puts a new id after them, and no two entries of a sequence have
\* the same rank.
C13_RanksStrictlyIncrease ==
    [][\A k \in Keys :
          /\ IsPrefix(Order(ranked[k]), Order(ranked'[k]))
          /\ \A e, f \in ranked'[k] : e # f => e[2] # f[2]]_vars

\* The indexTx calls claimed for a transaction, in order.
ExpectedCalls(tx) ==
    IF tx.type = 4
    THEN [i \in 1 .. 2 + Len(tx.transfers) |->
            <<"transfer",
              IF i = 1 THEN tx.sender
              ELSE IF i = 2 THEN tx.recipient
              ELSE tx.transfers[i - 2].recipient,
              tx.id>>]
    ELSE << <<"anchor", tx.sender, tx.id>> >>

\* C15: when index() has returned for a transfer with n transfer sub-entries
\* it has issued 2 + n indexTx calls, for the sender, the recipient and the
\* sub-entries' recipients in order, all with the name "transfer" and the
\* transaction's id; for an anchor transaction with a sender only it has
\* issued the one call ("anchor", sender, id).  While index() runs the calls
\* issued are the first ones of that list.
C15_IndexCalls ==
    LET expected == ExpectedCalls(TxOf(job.id))
    IN  /\ job.pc = "done" => log = expected
        /\ job.pc = "indexTx" => log = SubSeq(expected, 1, job.pos)

\* C15 witness: index() has returned for a transfer with two sub-entries,
\* after four indexTx calls.
C15_Witness ==
    /\ job.pc = "done"
    /\ TxOf(job.id).type = 4
    /\ Len(TxOf(job.id).transfers) = 2
    /\ Len(log) = 4

\* The entries at the positions offset .. offset + limit - 1 (counted from 0)
\* of a sequence, those that exist.
Slice(seq, offset, limit) ==
    SubSeq(seq, offset + 1, Min(offset + limit, Len(seq)))

\* C16: getTx(type, address, limit, offset) returns the entries at the
\* positions offset .. offset + limit - 1 of the ranked sequence, in order
\* (none for limit = 0).
C16_PageIsSlice ==
    page.pc = "done" =>
       page.result = Slice(page.order, page.offset, page.limit)

(* ---------------------- claims about the trust roles ------------------- *)

\* The names among `assigned` that the role-definition table holds.
TableRoles(assigned) == SelectSeq(assigned, LAMBDA r : r \in DOMAIN configRoles)

RECURSIVE AllIssues(_)
\* The issues lists of the roles rs, one after the other.
AllIssues(rs) ==
    IF rs = <<>> THEN <<>>
    ELSE configRoles[Head(rs)].issues \o AllIssues(Tail(rs))

RECURSIVE AllAuthorization(_)
AllAuthorization(rs) ==
    IF rs = <<>> THEN <<>>
    ELSE configRoles[Head(rs)].authorization \o AllAuthorization(Tail(rs))

\* C14: getTrustNetworkRoles returns as roles the assigned names that are in
\* the role-definition table (the others contribute nothing); issues_roles
\* holds one entry for each role name in those roles' issues lists, the first
\* one with that name; issues_authorization holds each value of their
\* authorization lists once.
C14_RolesAggregated ==
    roleData.pc = "done" =>
       LET defined == TableRoles(roleData.assigned)
           issues  == AllIssues(defined)
           auth    == AllAuthorization(defined)
           got     == roleData.issues_roles
           gotAuth == roleData.issues_authorization
       IN  /\ roleData.roles = defined
           /\ {e.role : e \in Elements(got)} = {e.role : e \in Elements(issues)}
           /\ \A i, j \in 1 .. Len(got) : i < j => got[i].role # got[j].role
           /\ \A i \in 1 .. Len(got) :
                 got[i] = issues[Least({k \in 1 .. Len(issues) :
                                          issues[k].role = got[i].role})]
           /\ Elements(gotAuth) = Elements(auth)
           /\ \A i, j \in 1 .. Len(gotAuth) : i < j => gotAuth[i] # gotAuth[j]

\* C14 witness: the roles were read for an address that is assigned two roles
\* of the table that both issue the role "node", and the name "ghost".
C14_Witness ==
    /\ roleData.pc = "done"
    /\ {"ghost", "validator", "authority"} \subseteq Elements(roleData.assigned)
    /\ Len(roleData.roles) = 2
    /\ Len(roleData.issues_roles) = 3

(* ------------------- claims about the association graph ---------------- *)

RECURSIVE Close(_, _)
\* The addresses reachable from the set S along the edges of ch, S included.
Close(ch, S) ==
    LET T == S \cup UNION {ch[x] : x \in S}
    IN  IF T = S THEN S ELSE Close(ch, T)

\* The addresses reachable from a along at least one edge of ch.
Descendants(ch, a) == Close(ch, ch[a])

Acyclic(ch) == \A a \in Addresses : a \notin Descendants(ch, a)

\* C9: when every saveAssociation and removeAssociation called so far has
\* completed, b is in a's childs set exactly when a is in b's parents set.
C9_EdgesMirrored ==
    Idle => \A a, b \in Addresses : b \in childs[a] <=> a \in parents[b]

\* C9 witness: a removeAssociation has completed that removed edges and left
\* others in place.
C9_Witness ==
    /\ op.name = "removeAssociation"
    /\ op.pc = "done"
    /\ pre.childs # childs
    /\ Edges # {}

\* C10: after removeAssociation(parent, child) has completed on an acyclic
\* graph, child is not a child of parent, parent is not a parent of child,
\* every address that was reachable from child (child included) has no
\* children, and none of those addresses is still a parent of one of the
\* children it had.
C10_CascadeRemovesDescendants ==
    (op.name = "removeAssociation" /\ op.pc = "done" /\ Acyclic(pre.childs)) =>
       /\ op.party \notin childs[op.sender]
       /\ op.sender \notin parents[op.party]
       /\ \A d \in Close(pre.childs, {op.party}) :
             /\ childs[d] = {}
             /\ \A c \in pre.childs[d] : d \notin parents[c]

\* C10 witness: removeAssociation(A, B) has completed where B was a child of
\* A and had the children C and D.
C10_Witness ==
    /\ op = [name |-> "removeAssociation", sender |-> "A", party |-> "B",
             pc |-> "done"]
    /\ "B" \in pre.childs["A"]
    /\ pre.childs["B"] = {"C", "D"}
    /\ pre.parents["C"] = {"B"}
    /\ Acyclic(pre.childs)

\* The edges of a family of childs sets.
EdgesOf(ch) == {e \in Addresses \X Addresses : e[2] \in ch[e[1]]}

\* The childs sets recurRemoveAssociation(party) starts from: those at the
\* call of removeAssociation(sender, party) less the edge sender -> party.
AtRecur == Srem(pre.childs, op.sender, op.party)

\* The graph reachable from party when recurRemoveAssociation(party) is called
\* contains a cycle.
CycleBelowParty ==
    \E d \in Close(AtRecur, {op.party}) : d \in Descendants(AtRecur, d)

\* C11 as claimed: removeAssociation never completes when the graph reachable
\* from the child contains a cycle.
C11_NeverReturnsOnCycle ==
    (op.name = "removeAssociation" /\ CycleBelowParty) => op.pc # "done"

\* C11 amended: removeAssociation terminates on every graph, cyclic or not.
\* The calls of recurRemoveAssociation in progress never outnumber the edges
\* stored when removeAssociation was called by more than one, and if every
\* storage call settles the operation completes (or rejects with the error a
\* storage call threw).
C11_CascadeTerminates ==
    /\ [](op.name = "removeAssociation" =>
             Len(stack) <= Cardinality(EdgesOf(pre.childs)) + 1)
    /\ (op.name = "removeAssociation" /\ op.pc = "childs")
          ~> (op.pc \in {"done", "failed"})

\* C11 witness: removeAssociation(A, B) has completed on a graph in which B
\* and C were each other's child, and no edge below B is left.
C11_Witness ==
    /\ op = [name |-> "removeAssociation", sender |-> "A", party |-> "B",
             pc |-> "done"]
    /\ "B" \in pre.childs["A"]
    /\ "C" \in pre.childs["B"]
    /\ "B" \in pre.childs["C"]
    /\ childs["B"] = {}
    /\ childs["C"] = {}

\* C20: removeAssociation(sender, party) only removes, and only edges that lie
\* on a children-path starting with the edge sender -> party; when party is
\* not in the children set of sender it leaves every children set and every
\* parents set as it was.
C20_RemovesOnlyBelowTheEdge ==
    (op.name = "removeAssociation" /\ op.pc = "done") =>
       /\ \A a \in Addresses : /\ childs[a] \subseteq pre.childs[a]
                                /\ parents[a] \subseteq pre.parents[a]
       /\ op.party \notin pre.childs[op.sender] =>
             /\ childs = pre.childs
             /\ parents = pre.parents
       /\ \A a \in Addresses : \A b \in pre.childs[a] \ childs[a] :
             /\ op.party \in pre.childs[op.sender]
             /\ \/ <<a, b>> = <<op.sender, op.party>>
                \/ a \in {op.party} \cup Descendants(pre.childs, op.party)
====
